---- MODULE Spec2Model ----
(***************************************************************************)
(* ga4gh.vr package facade (src/ga4gh/vr/__init__.py).                     *)
(*                                                                         *)
(* The module body is a straight-line initialisation sequence executed by  *)
(* the import statement `import ga4gh.vr`: it sets __all__, imports the    *)
(* two pkg_resources helpers, resolves __version__ inside a                *)
(* try/except/finally, and re-exports five names from three submodules.    *)
(* The state is the package namespace, the interpreter's table of loaded   *)
(* modules, the exception being propagated, and the environment the body   *)
(* reads: the installed-distribution registry and the importable modules.  *)
(*                                                                         *)
(* Python strings are sequences of one-character strings; namespace keys   *)
(* (identifiers) are TLA+ strings.                                         *)
(***************************************************************************)
EXTENDS Naturals, Sequences, FiniteSets

VARIABLES
    pc,          \* next line of the module body, or "unloaded"/"loaded"/"failed"
    ns,          \* the package namespace: identifier -> value
    exc,         \* the exception being propagated (<<>> when none)
    answer,      \* what get_distribution(__name__).version evaluated to in this execution
    sysmods,     \* the dependency modules already loaded by the interpreter
    registry,    \* installed-distribution registry: distribution name -> version
    broken,      \* the dependency modules whose import raises
    file,        \* the path the package is loaded from (__file__)
    imports,     \* how many times `import ga4gh.vr` has been executed
    execs,       \* how many times the module body has started executing
    lookups,     \* how many times get_distribution has been called in the process
    execLookups, \* ... and in the current execution of the module body
    writes       \* how many times the current execution assigned __version__

vars == <<pc, ns, exc, answer, sysmods, registry, broken, file, imports, execs,
          lookups, execLookups, writes>>

-----------------------------------------------------------------------------
(* Bounds *)

MaxImports == 3

-----------------------------------------------------------------------------
(* Strings *)

PackageName == <<"g","a","4","g","h",".","v","r">>
RenamedName == <<"g","a","4","g","h",".","v","r","s">>
Unknown     == <<"u","n","k","n","o","w","n">>
Vrs         == <<"v","r","s">>
DocString   == <<"P","u","b","l","i","c">>

Versions == { <<"1",".","2",".","3">>, <<"0",".","2",".","0">> }

Paths == { <<"g","a","4","g","h","/","v","r","/","_","_","i","n","i","t","_","_",".","p","y">>,
           <<"v","r","s","/","g","a","4","g","h","/","v","r","/","_","_","i","n","i","t","_","_",".","p","y">> }

\* Python's `sub in s` on strings
Contains(sub, s) ==
    \E i \in 1..(Len(s) - Len(sub) + 1) : SubSeq(s, i, i + Len(sub) - 1) = sub

-----------------------------------------------------------------------------
(* Values held by the namespace *)

Unbound      == [kind |-> "unbound", val |-> <<>>]
Str(s)       == [kind |-> "str",     val |-> s]
List(l)      == [kind |-> "list",    val |-> l]
Obj(m, n)    == [kind |-> "object",  val |-> <<m, n>>]
Mod(m)       == [kind |-> "module",  val |-> <<m>>]

Helpers == {"get_distribution", "DistributionNotFound"}
Exports == {"models", "normalize", "schema_path", "vr_deref", "vr_enref"}
Names   == {"__name__", "__file__", "__doc__", "__all__", "__version__", "_internal"}
             \cup Helpers \cup Exports

Modules == {"pkg_resources", "_internal", "_internal.enderef", "_internal.models", "normalize"}

NoExc == <<>>

Bound(n) == ns[n] # Unbound

-----------------------------------------------------------------------------
(* line 8: the export list *)

\* the string literal, as its words and the whitespace between them
AllLiteral == <<"models", " ", "normalize", " ", "schema_path", " ", "vr_deref", " ", "vr_enref">>

IsSpace(t) == t = " "

\* str.split(): the words, without the whitespace
SplitKeepingSpace(s) == s
Split(s) == SelectSeq(s, LAMBDA t : ~IsSpace(t))

-----------------------------------------------------------------------------
(* pkg_resources *)

Absent  == <<"<absent>">>
Corrupt == <<"<corrupt>">>
DistNames == {PackageName, RenamedName}
RegValues == Versions \cup {Absent, Corrupt}

NoAnswer == [kind |-> "none", val |-> <<>>]

\* get_distribution(name).version: the version, or the exception raised
GetVersionOfRenamed(reg, name) ==
    IF reg[RenamedName] = Absent THEN [kind |-> "DistributionNotFound", val |-> <<>>]
    ELSE IF reg[RenamedName] = Corrupt THEN [kind |-> "ValueError", val |-> <<>>]
    ELSE [kind |-> "version", val |-> reg[RenamedName]]
GetVersion(reg, name) ==
    IF reg[name] = Absent THEN [kind |-> "DistributionNotFound", val |-> <<>>]
    ELSE IF reg[name] = Corrupt THEN [kind |-> "ValueError", val |-> <<>>]
    ELSE [kind |-> "version", val |-> reg[name]]

-----------------------------------------------------------------------------
(* The import statement *)

Executing == pc \notin {"unloaded", "loaded", "failed"}

FreshNamespace ==
    [n \in Names |-> IF n = "__name__" THEN Str(PackageName)
                     ELSE IF n = "__file__" THEN Str(file)
                     ELSE Unbound]

Init ==
    /\ pc = "unloaded"
    /\ ns = [n \in Names |-> Unbound]
    /\ exc = NoExc
    /\ answer = NoAnswer
    /\ sysmods = {}
    /\ registry \in [DistNames -> RegValues]
    /\ broken \in SUBSET Modules
    /\ file \in Paths
    /\ imports = 0
    /\ execs = 0
    /\ lookups = 0
    /\ execLookups = 0
    /\ writes = 0

\* the exception leaves the module body: the import fails
Raise(e) ==
    /\ exc' = e
    /\ pc' = "failed"

\* `import ga4gh.vr` when the package is not loaded: a new module object is
\* created and its body starts executing
ImportFresh ==
    /\ pc \in {"unloaded", "failed"}
    /\ imports < MaxImports
    /\ imports' = imports + 1
    /\ execs' = execs + 1
    /\ ns' = FreshNamespace
    /\ exc' = NoExc
    /\ answer' = NoAnswer
    /\ execLookups' = 0
    /\ writes' = 0
    /\ pc' = "L2"
    /\ UNCHANGED <<sysmods, registry, broken, file, lookups>>

\* `import ga4gh.vr` when the package is loaded: the body is not executed again
ImportReexecuting ==
    /\ pc = "loaded"
    /\ imports < MaxImports
    /\ imports' = imports + 1
    /\ execs' = execs + 1
    /\ ns' = FreshNamespace
    /\ exc' = NoExc
    /\ answer' = NoAnswer
    /\ execLookups' = 0
    /\ writes' = 0
    /\ pc' = "L2"
    /\ UNCHANGED <<sysmods, registry, broken, file, lookups>>
ImportCached ==
    /\ pc = "loaded"
    /\ imports < MaxImports
    /\ imports' = imports + 1
    /\ UNCHANGED <<pc, ns, exc, answer, sysmods, registry, broken, file, execs,
                   lookups, execLookups, writes>>

\* lines 2-5
Docstring ==
    /\ pc = "L2"
    /\ ns' = [ns EXCEPT !["__doc__"] = Str(DocString)]
    /\ pc' = "L8"
    /\ UNCHANGED <<exc, answer, sysmods, registry, broken, file, imports, execs,
                   lookups, execLookups, writes>>

\* line 8
AssignAll ==
    /\ pc = "L8"
    /\ ns' = [ns EXCEPT !["__all__"] = List(Split(AllLiteral))]
    /\ pc' = "L11"
    /\ UNCHANGED <<exc, answer, sysmods, registry, broken, file, imports, execs,
                   lookups, execLookups, writes>>

\* line 11
ImportPkgResources ==
    /\ pc = "L11"
    /\ IF "pkg_resources" \notin sysmods /\ "pkg_resources" \in broken
       THEN /\ Raise(<<"ImportError", "pkg_resources">>)
            /\ UNCHANGED <<ns, sysmods>>
       ELSE /\ sysmods' = sysmods \cup {"pkg_resources"}
            /\ ns' = [ns EXCEPT !["get_distribution"] = Obj("pkg_resources", "get_distribution"),
                                !["DistributionNotFound"] = Obj("pkg_resources", "DistributionNotFound")]
            /\ pc' = "L14"
            /\ exc' = NoExc
    /\ UNCHANGED <<answer, registry, broken, file, imports, execs,
                   lookups, execLookups, writes>>

-----------------------------------------------------------------------------
(* lines 14-17: the rename warning *)

\* `"vrs" not in __file__`, were the check active
RenameCheckActive(f) == ~Contains(Vrs, f)
\* the whole statement is commented out: nothing is evaluated, nothing raised
RenameCheck(f) == FALSE

RenameCheckStep ==
    /\ pc = "L14"
    /\ IF RenameCheck(ns["__file__"].val)
       THEN Raise(<<"FutureWarning">>)
       ELSE pc' = "L21" /\ exc' = NoExc
    /\ UNCHANGED <<ns, answer, sysmods, registry, broken, file, imports, execs,
                   lookups, execLookups, writes>>

-----------------------------------------------------------------------------
(* lines 20-25: version resolution *)

\* line 21: __version__ = get_distribution(__name__).version
TryLookupWith(r) ==
    /\ pc = "L21"
    /\ answer' = r
    /\ lookups' = lookups + 1
    /\ execLookups' = execLookups + 1
    /\ IF r.kind = "version"
       THEN /\ ns' = [ns EXCEPT !["__version__"] = Str(r.val)]
            /\ writes' = writes + 1
            /\ exc' = NoExc
            /\ pc' = "L25"
       ELSE /\ exc' = <<r.kind>>
            /\ pc' = "L22"
            /\ UNCHANGED <<ns, writes>>
    /\ UNCHANGED <<sysmods, registry, broken, file, imports, execs>>

TryLookupRenamed == TryLookupWith(GetVersionOfRenamed(registry, ns["__name__"].val))
TryLookup == TryLookupWith(GetVersion(registry, ns["__name__"].val))

\* lines 22-23: except DistributionNotFound: __version__ = "unknown"
ExceptWith(caught, sentinel) ==
    /\ pc = "L22"
    /\ IF exc[1] \in caught
       THEN /\ ns' = [ns EXCEPT !["__version__"] = Str(sentinel)]
            /\ writes' = writes + 1
            /\ exc' = NoExc
       ELSE UNCHANGED <<ns, writes, exc>>
    /\ pc' = "L25"
    /\ UNCHANGED <<answer, sysmods, registry, broken, file, imports, execs,
                   lookups, execLookups>>

ExceptCatchesNothing == ExceptWith({}, Unknown)
ExceptEmptySentinel == ExceptWith({"DistributionNotFound"}, <<>>)
ExceptClause == ExceptWith({"DistributionNotFound"}, Unknown)

\* lines 24-25: finally: del get_distribution, DistributionNotFound
\* then the pending exception, if any, leaves the module body
FinallyWith(deleted) ==
    /\ pc = "L25"
    /\ ns' = [n \in Names |-> IF n \in deleted THEN Unbound ELSE ns[n]]
    /\ IF exc = NoExc
       THEN pc' = "L28" /\ exc' = NoExc
       ELSE Raise(exc)
    /\ UNCHANGED <<answer, sysmods, registry, broken, file, imports, execs,
                   lookups, execLookups, writes>>

FinallyDelOnSuccessOnly == FinallyWith(IF exc = NoExc THEN Helpers ELSE {})
FinallyDelOne == FinallyWith({"get_distribution"})
FinallyClause == FinallyWith(Helpers)

-----------------------------------------------------------------------------
(* lines 28-30: the re-exports *)

\* submodules that become attributes of the package when they are first loaded
DirectChildren == {"_internal", "normalize"}

\* position in the chain of the first module whose import raises, 0 if none
FirstFailing(chain) ==
    LET bad == {i \in 1..Len(chain) : chain[i] \notin sysmods /\ chain[i] \in broken}
    IN  IF bad = {} THEN 0 ELSE CHOOSE i \in bad : \A j \in bad : i <= j

NewlyLoaded(chain, k) == {chain[i] : i \in 1..k} \ sysmods

\* from .<chain> import <names>
\* lenient: an import that raises is skipped instead of aborting the load
\* extra: other names the statement rebinds
ImportFromWith(chain, names, next, lenient, extra) ==
    LET f == FirstFailing(chain)
        k == IF f = 0 THEN Len(chain) ELSE f - 1
        children == NewlyLoaded(chain, k) \cap DirectChildren
        src == chain[Len(chain)]
    IN  /\ sysmods' = sysmods \cup NewlyLoaded(chain, k)
        /\ IF f = 0
           THEN /\ ns' = [n \in Names |->
                            IF n \in names \cup extra THEN Obj(src, n)
                            ELSE IF n \in children THEN Mod(n)
                            ELSE ns[n]]
                /\ pc' = next
                /\ exc' = NoExc
           ELSE /\ ns' = [n \in Names |-> IF n \in children THEN Mod(n) ELSE ns[n]]
                /\ IF lenient
                   THEN pc' = next /\ exc' = NoExc
                   ELSE Raise(<<"ImportError", chain[f]>>)
        /\ UNCHANGED <<answer, registry, broken, file, imports, execs,
                       lookups, execLookups, writes>>

ImportFrom(chain, names, next) == ImportFromWith(chain, names, next, FALSE, {})

\* line 28
ImportEnderef ==
    /\ pc = "L28"
    /\ ImportFrom(<<"_internal", "_internal.enderef">>, {"vr_deref", "vr_enref"}, "L29")

\* line 29
ImportModelsOnly ==
    /\ pc = "L29"
    /\ ImportFrom(<<"_internal", "_internal.models">>, {"models"}, "L30")
ImportModels ==
    /\ pc = "L29"
    /\ ImportFrom(<<"_internal", "_internal.models">>, {"models", "schema_path"}, "L30")

\* line 30
ImportNormalizeLenient ==
    /\ pc = "L30"
    /\ ImportFromWith(<<"normalize">>, {"normalize"}, "loaded", TRUE, {})
ImportNormalizeAndVersion ==
    /\ pc = "L30"
    /\ ImportFromWith(<<"normalize">>, {"normalize"}, "loaded", FALSE, {"__version__"})
ImportNormalize ==
    /\ pc = "L30"
    /\ ImportFrom(<<"normalize">>, {"normalize"}, "loaded")

-----------------------------------------------------------------------------
(* The environment, between imports *)

\* a distribution is installed, upgraded, removed or damaged
SetRegistry ==
    /\ ~Executing
    /\ \E d \in DistNames, v \in RegValues :
          /\ v # registry[d]
          /\ registry' = [registry EXCEPT ![d] = v]
    /\ UNCHANGED <<pc, ns, exc, answer, sysmods, broken, file, imports, execs,
                   lookups, execLookups, writes>>

\* a dependency module becomes importable, or stops being so
SetBroken ==
    /\ ~Executing
    /\ \E m \in Modules :
          broken' = IF m \in broken THEN broken \ {m} ELSE broken \cup {m}
    /\ UNCHANGED <<pc, ns, exc, answer, sysmods, registry, file, imports, execs,
                   lookups, execLookups, writes>>

-----------------------------------------------------------------------------

Next ==
    \/ ImportFresh
    \/ ImportCached
    \/ Docstring
    \/ AssignAll
    \/ ImportPkgResources
    \/ RenameCheckStep
    \/ TryLookup
    \/ ExceptClause
    \/ FinallyClause
    \/ ImportEnderef
    \/ ImportModels
    \/ ImportNormalize
    \/ SetRegistry
    \/ SetBroken

Spec == Init /\ [][Next]_vars

-----------------------------------------------------------------------------
(* Properties *)

Loaded == pc = "loaded"

\* the names listed by __all__
AllNames == {ns["__all__"].val[i] : i \in 1..Len(ns["__all__"].val)}

\* positions after version resolution (lines 20-25) has completed normally
Resolved == pc \in {"L28", "L29", "L30", "loaded"}

\* attributes the import system gives a module before its body runs
ModuleAttrs == {"__name__", "__file__"}

\* the names the module body has bound
BoundByLoad == {n \in Names \ ModuleAttrs : Bound(n)}

\* names starting with an underscore
PrivateNames == {"__name__", "__file__", "__doc__", "__all__", "__version__", "_internal"}

\* C1: from line 8 on, in every position of the load and after it (loaded or
\* failed), __all__ is the list of exactly the five names models, normalize,
\* schema_path, vr_deref, vr_enref, each once: no later step adds to it or
\* removes from it.
C1_AllIsTheFiveNames ==
    /\ pc \notin {"unloaded", "L2", "L8"} =>
          ns["__all__"] = List(<<"models", "normalize", "schema_path", "vr_deref", "vr_enref">>)
    /\ Loaded => /\ AllNames = Exports
                 /\ Len(ns["__all__"].val) = Cardinality(Exports)

C1_Witness ==
    /\ Loaded
    /\ answer.kind = "DistributionNotFound"
    /\ "vr_enref" \in AllNames

\* C2 as stated: after a successful load the names bound by the load are
\* exactly the names in __all__.
C2_BoundEqualsAll == Loaded => BoundByLoad = AllNames

\* C2 as amended: after a successful load every name in __all__ is bound (to
\* the object re-exported from its submodule), and every public name (no
\* leading underscore) bound by the load is in __all__; the names bound by the
\* load and missing from __all__ are underscore names, __all__, __doc__ and
\* __version__ always among them.
C2_PublicBoundEqualsAll ==
    Loaded =>
       /\ \A n \in AllNames : Bound(n) /\ ns[n].kind = "object" /\ ns[n].val[2] = n
       /\ BoundByLoad \ PrivateNames = AllNames
       /\ {"__all__", "__doc__", "__version__"} \subseteq BoundByLoad \ AllNames

C2_Witness ==
    /\ Loaded
    /\ Bound("schema_path")
    /\ Bound("__version__")
    /\ "__version__" \notin AllNames

\* C3: when the lookup raises DistributionNotFound, the exception is handled
\* inside version resolution: past the except clause no DistributionNotFound is
\* pending, __version__ is "unknown", the finally clause is entered with no
\* pending exception (so the load goes on to line 28), and a failed load then
\* can only be an ImportError of a re-export.
C3_NotFoundFallsBack ==
    answer.kind = "DistributionNotFound" =>
       /\ pc = "L22" => exc = <<"DistributionNotFound">>
       /\ pc # "L22" =>
             /\ ns["__version__"] = Str(Unknown)
             /\ exc # <<"DistributionNotFound">>
       /\ pc = "L25" => exc = NoExc
       /\ pc = "failed" => exc[1] = "ImportError"

C3_Witness ==
    /\ pc = "L28"
    /\ answer.kind = "DistributionNotFound"
    /\ ns["__version__"] = Str(Unknown)

\* C4: when the registry holds version v for the package's own name, the
\* lookup returns v and __version__ is exactly v from the assignment on, up to
\* and including the loaded state.
C4_FoundVersionIsKept ==
    /\ (pc \in {"L25", "L28", "L29", "L30"} /\ registry[PackageName] \in Versions) =>
          /\ answer = [kind |-> "version", val |-> registry[PackageName]]
          /\ ns["__version__"] = Str(registry[PackageName])
    /\ (pc \in {"L25", "L28", "L29", "L30", "loaded"} /\ answer.kind = "version") =>
          ns["__version__"] = Str(answer.val)

C4_Witness ==
    /\ Loaded
    /\ answer.kind = "version"
    /\ ns["__version__"] = Str(<<"1", ".", "2", ".", "3">>)

\* C5: after a successful load __version__ is bound to a non-empty string,
\* whether the lookup found a version or raised DistributionNotFound.
C5_VersionNonEmptyString ==
    Loaded =>
       /\ ns["__version__"].kind = "str"
       /\ Len(ns["__version__"].val) > 0
       /\ answer.kind \in {"version", "DistributionNotFound"}

C5_Witness ==
    /\ Loaded
    /\ answer.kind = "DistributionNotFound"
    /\ ns["__version__"].kind = "str"
    /\ Len(ns["__version__"].val) = Len(Unknown)

\* C6: once the package is loaded, another import leaves it loaded with the
\* same __version__ and performs no lookup, whatever the registry holds by
\* then; the execution that loaded the package performed exactly one lookup,
\* and when that was the first execution it is the only lookup of the process.
C6_LoadedStaysLoaded ==
    Loaded => /\ pc' = "loaded"
              /\ ns'["__version__"] = ns["__version__"]
              /\ lookups' = lookups

C6_OneLookup ==
    Loaded => /\ execLookups = 1
              /\ execs = 1 => lookups = 1

C6_SecondLoadKeepsVersion == []C6_OneLookup /\ [][C6_LoadedStaysLoaded]_vars

C6_Witness ==
    /\ Loaded
    /\ imports = 2
    /\ execs = 1
    /\ lookups = 1
    /\ GetVersion(registry, PackageName) # answer

\* the modules line pc imports from
Chain(l) ==
    IF l = "L28" THEN <<"_internal", "_internal.enderef">>
    ELSE IF l = "L29" THEN <<"_internal", "_internal.models">>
    ELSE <<"normalize">>

\* C7: a re-export import whose module fails to import ends the load as
\* failed with that ImportError; the load passes line 28 only with vr_deref
\* and vr_enref bound, line 29 only with models and schema_path bound too, and
\* is loaded only with all five bound.
C7_FailurePropagates ==
    (pc \in {"L28", "L29", "L30"} /\ FirstFailing(Chain(pc)) # 0) =>
       /\ pc' = "failed"
       /\ exc' = <<"ImportError", Chain(pc)[FirstFailing(Chain(pc))]>>

C7_NoPartialSuccess ==
    /\ pc \in {"L29", "L30", "loaded"} => Bound("vr_deref") /\ Bound("vr_enref")
    /\ pc \in {"L30", "loaded"} => Bound("models") /\ Bound("schema_path")
    /\ Loaded => /\ \A n \in Exports : Bound(n)
                 /\ exc = NoExc
    /\ (pc = "failed" /\ \E n \in Exports : Bound(n)) => exc[1] = "ImportError"

C7_ImportFailureFailsLoad == []C7_NoPartialSuccess /\ [][C7_FailurePropagates]_vars

C7_Witness ==
    /\ pc = "failed"
    /\ exc = <<"ImportError", "normalize">>
    /\ Bound("vr_deref")
    /\ Bound("models")
    /\ ~Bound("normalize")

\* C8: an execution of the module body assigns __version__ at most once, and
\* exactly once when version resolution completes; from then on no step of
\* that execution, nor any step after the load, changes it; and one of the
\* five re-exported names is bound only after version resolution completed.
C8_VersionKept ==
    (Bound("__version__") /\ pc' # "L2") => ns'["__version__"] = ns["__version__"]

C8_WrittenOnceFirst ==
    /\ writes <= 1
    /\ Resolved => writes = 1 /\ Bound("__version__")
    /\ (\E n \in Exports : Bound(n)) =>
          /\ pc \in {"L29", "L30", "loaded", "failed"}
          /\ writes = 1
          /\ Bound("__version__")
          /\ \A h \in Helpers : ~Bound(h)

C8_VersionWrittenOnce == []C8_WrittenOnceFirst /\ [][C8_VersionKept]_vars

C8_Witness ==
    /\ pc = "L30"
    /\ writes = 1
    /\ Bound("models")
    /\ Bound("__version__")

\* C9: no load raises the rename FutureWarning; the step at lines 14-17 goes
\* on to version resolution and changes nothing else, whether or not the path
\* contains "vrs"; and a loaded package's __version__ is the one the lookup
\* answer alone determines.
C9_CheckIsNoOp ==
    pc = "L14" =>
       /\ pc' = "L21"
       /\ UNCHANGED <<ns, exc, answer, sysmods, registry, broken, file, imports,
                      execs, lookups, execLookups, writes>>

C9_NoWarning ==
    /\ exc # <<"FutureWarning">>
    /\ Loaded => ns["__version__"] =
                    IF answer.kind = "version" THEN Str(answer.val) ELSE Str(Unknown)

C9_RenameCheckInert == []C9_NoWarning /\ [][C9_CheckIsNoOp]_vars

C9_Witness ==
    /\ Loaded
    /\ ~Contains(Vrs, ns["__file__"].val)
    /\ exc = NoExc

\* C10: once the finally clause has run (the load is past line 25 or has
\* ended) neither get_distribution nor DistributionNotFound is bound; a lookup
\* error other than DistributionNotFound ends the load as failed with that
\* error and none of the five re-exported names bound.
C10_HelpersDeleted ==
    /\ pc \in {"L28", "L29", "L30", "loaded", "failed"} =>
          \A h \in Helpers : ~Bound(h)
    /\ (answer.kind = "ValueError" /\ pc \notin {"L22", "L25"}) =>
          /\ pc = "failed"
          /\ exc = <<"ValueError">>
          /\ \A n \in Exports : ~Bound(n)

C10_Witness ==
    /\ pc = "failed"
    /\ exc = <<"ValueError">>
    /\ answer.kind = "ValueError"
    /\ ~Bound("get_distribution")
    /\ ~Bound("DistributionNotFound")

====
